---- MODULE Spec2Model ----
(***************************************************************************)
(* Duck Duck Diameter: the Monte Carlo experiment of the notebook          *)
(* "Duck Duck Diameter" (generate_ducks, calculate_distance,               *)
(* test_distance, test, expected_result).                                  *)
(*                                                                         *)
(* Numbers.  The notebook computes with Python floats (IEEE-754 binary64). *)
(* A drawn value random.random() is a multiple of 2^-53 in [0,1).  The     *)
(* model keeps the format and scales the precision: a position is the      *)
(* integer numerator m of m / 2^Precision, random.random() yields          *)
(* 0 .. 2^Precision - 1, and an arithmetic result that needs more than     *)
(* Precision significant bits is rounded to nearest, ties to even, as the  *)
(* hardware does (with Precision = 53 this is binary64 on [-2, 2]).        *)
(***************************************************************************)
EXTENDS Integers, Sequences, FiniteSets, TLC

VARIABLES
    pc,            \* position of the running code
    iterations,    \* the global  iterations  read by test()
    duck_count,    \* the argument of test / generate_ducks / expected_result
    random_ducks,  \* generate_ducks: the drawn values (kept for the claims)
    ducks,         \* the sorted sample returned by generate_ducks
    distance,      \* the result of calculate_distance
    on_one_half,   \* the result of test_distance
    distances,     \* test(): the local list  distances  (never appended to)
    hits,          \* test(): the local hit counter
    trials,        \* test(): how many loop bodies of  range(iterations)  ran
    trial_log,     \* history: the outcome of every trial of the current run
    result,        \* what test() returned
    error,         \* the exception that ended the run, if any
    expectation    \* what expected_result returned

vars == <<pc, iterations, duck_count, random_ducks, ducks, distance,
          on_one_half, distances, hits, trials, trial_log, result, error,
          expectation>>

-----------------------------------------------------------------------------
(* Bounds of the model *)

\* significant bits of a float (53 in the program)
Precision == 4
\* largest duck count whose draws are enumerated exhaustively
MaxDucks == 3
\* largest value of the global  iterations  (50000 in the notebook)
MaxIterations == 3
\* largest argument given to expected_result
MaxExpectedDucks == 1100

\* a variable that is not bound at the current position holds the default of
\* its type (<<>>, 0, FALSE); pc tells which variables are bound
NoError == "None"

-----------------------------------------------------------------------------
(* Float arithmetic on numerators over 2^Precision *)

RECURSIVE Pow2(_)
Pow2(e) == IF e <= 0 THEN 1 ELSE 2 * Pow2(e - 1)

\* 1.0 and 0.5
One == Pow2(Precision)
Half == One \div 2

Abs(x) == IF x < 0 THEN -x ELSE x

\* Round to nearest, ties to even, for |s| < 2.0: below 1.0 every multiple of
\* 2^-Precision is a float; in [1.0, 2.0) only the even ones are, an odd s lies
\* half way between s-1 and s+1 and goes to the one with the even significand.
RoundToFloat(s) ==
    IF Abs(s) <= One \/ s % 2 = 0 THEN s
    ELSE IF (s + 1) % 4 = 0 THEN s + 1 ELSE s - 1

FloatAdd(a, b) == RoundToFloat(a + b)
FloatSub(a, b) == RoundToFloat(a - b)

\* A bug a port would make: C's fmod, whose result keeps the sign of x.
Mod1Truncating(x) == IF x >= 0 THEN x % One ELSE -((-x) % One)

\* Python's  x % 1  on floats: fmod(x, 1.0), and when that is negative,
\* 1.0 is added to it (a float addition).
Mod1(x) ==
    LET m == IF x >= 0 THEN x % One ELSE -((-x) % One)
    IN  IF m < 0 THEN FloatAdd(m, One) ELSE m

\* random.random(): the multiples of 2^-Precision in [0, 1)
RandomValues == 0 .. (One - 1)

\* [random.random() for _ in range(n)]
Draws(n) == [1 .. n -> RandomValues]

-----------------------------------------------------------------------------
(* generate_ducks, calculate_distance, test_distance *)

\* A bug: no rotation at all.
no_rotation_delta(drawn) == 0

\* rotation_delta = 0.5 - random_ducks[0]
rotation_delta(drawn) == FloatSub(Half, drawn[1])

\* rotated_ducks = [duck + rotation_delta for duck in random_ducks]
rotated_ducks(drawn) ==
    [i \in 1 .. Len(drawn) |-> FloatAdd(drawn[i], rotation_delta(drawn))]

\* ducks = [duck % 1 for duck in rotated_ducks]
wrapped_ducks(rotated) == [i \in 1 .. Len(rotated) |-> Mod1(rotated[i])]

\* ducks.sort()
sort(s) == SortSeq(s, LAMBDA a, b : a < b)

\* generate_ducks, from the drawn values on
generate_ducks(drawn) == sort(wrapped_ducks(rotated_ducks(drawn)))

\* ducks[-1] - ducks[0]
calculate_distance(sample) == FloatSub(sample[Len(sample)], sample[1])

\* A bug: the strict comparison.
test_distance_strict(d) == d < Half

\* distance <= 0.5
test_distance(d) == d <= Half

-----------------------------------------------------------------------------
(* expected_result.  Its values go far below 2^-Precision, so here a float  *)
(* is kept as the dyadic number  m * 2^e  with m odd (or m = 0), in the     *)
(* exponent range of binary64.                                              *)

\* exponent of the smallest positive float, 2^-1074
MinSubnormalExponent == -1074

Zero == [m |-> 0, e |-> 0]

RECURSIVE Dyadic(_, _)
Dyadic(m, e) ==
    IF m = 0 THEN Zero
    ELSE IF m % 2 = 0 THEN Dyadic(m \div 2, e + 1)
    ELSE [m |-> m, e |-> e]

\* 1 / 2 ** power  (int / int, correctly rounded): 2^-power when that is a
\* float; 2^-1075 is half way between 0 and 2^-1074 and goes to 0 (even), and
\* anything smaller goes to 0.
reciprocal_of_power(power) ==
    IF -power >= MinSubnormalExponent THEN Dyadic(1, -power) ELSE Zero

\* n * f  for an int n < 2^53 and f zero or a power of two: n * 2^e has at
\* most 53 significant bits, none below 2^e, so the product is exact.
int_times_float(n, f) == Dyadic(n * f.m, f.e)

\* A bug: the exponent duck_count instead of duck_count - 1.
expected_result_off_by_one(n) == int_times_float(n, reciprocal_of_power(n))

\* duck_count * (1 / 2 ** (duck_count-1))
expected_result(n) == int_times_float(n, reciprocal_of_power(n - 1))

-----------------------------------------------------------------------------
(* test(): helpers *)

RECURSIVE GCD(_, _)
GCD(a, b) == IF b = 0 THEN Abs(a) ELSE GCD(b, a % Abs(b))

\* hits / iterations for iterations # 0, as the fraction in lowest terms that
\* the quotient rounds (<<0, -1>> is -0.0, <<1, 1>> is 1.0)
divide(a, b) == LET g == GCD(a, b) IN <<a \div g, b \div g>>

\* A bug: the counter of an earlier run is carried on (a global  hits).
initial_hits_carried(previous) == previous

\* hits = 0
initial_hits(previous) == 0

\* A bug: every trial counts.
count_hit_always(h, hit) == h + 1

\* if on_one_half: hits += 1
count_hit(h, hit) == IF hit THEN h + 1 ELSE h

\* the duck counts test() is called with (2,3,4,... in the notebook; here
\* also the invalid ones)
DuckCounts == {-1, 0, 1, 2, 3}

\* the values the global  iterations  is given (50000 in the notebook)
IterationCounts == -1 .. MaxIterations

-----------------------------------------------------------------------------
(* The pure functions on every draw: generate_ducks, calculate_distance,    *)
(* test_distance applied in the order of the loop body.                     *)

GenInit ==
    /\ duck_count \in 1 .. MaxDucks
    /\ random_ducks \in Draws(duck_count)
    /\ pc = "drawn"
    /\ iterations = 1
    /\ ducks = <<>>
    /\ distance = 0
    /\ on_one_half = FALSE
    /\ distances = <<>>
    /\ hits = 0
    /\ trials = 0
    /\ trial_log = <<>>
    /\ result = <<>>
    /\ error = NoError
    /\ expectation = Zero

\* generate_ducks after the draw: rotate, wrap, sort, return
RotateWrapSort ==
    /\ pc = "drawn"
    /\ ducks' = generate_ducks(random_ducks)
    /\ pc' = "generated"
    /\ UNCHANGED <<iterations, duck_count, random_ducks, distance, on_one_half,
                   distances, hits, trials, trial_log, result, error,
                   expectation>>

\* distance = calculate_distance(ducks)
CalculateDistance ==
    /\ pc = "generated"
    /\ distance' = calculate_distance(ducks)
    /\ pc' = "measured"
    /\ UNCHANGED <<iterations, duck_count, random_ducks, ducks, on_one_half,
                   distances, hits, trials, trial_log, result, error,
                   expectation>>

\* on_one_half = test_distance(distance)
TestDistance ==
    /\ pc = "measured"
    /\ on_one_half' = test_distance(distance)
    /\ pc' = "tested"
    /\ UNCHANGED <<iterations, duck_count, random_ducks, ducks, distance,
                   distances, hits, trials, trial_log, result, error,
                   expectation>>

GenNext == RotateWrapSort \/ CalculateDistance \/ TestDistance

GenSpec == GenInit /\ [][GenNext]_vars

-----------------------------------------------------------------------------
(* expected_result on every duck count *)

ExpInit ==
    /\ duck_count \in 1 .. MaxExpectedDucks
    /\ pc = "argument"
    /\ iterations = 1
    /\ random_ducks = <<>>
    /\ ducks = <<>>
    /\ distance = 0
    /\ on_one_half = FALSE
    /\ distances = <<>>
    /\ hits = 0
    /\ trials = 0
    /\ trial_log = <<>>
    /\ result = <<>>
    /\ error = NoError
    /\ expectation = Zero

\* expectation = expected_result(duck_count)
ExpectedResult ==
    /\ pc = "argument"
    /\ expectation' = expected_result(duck_count)
    /\ pc' = "expected"
    /\ UNCHANGED <<iterations, duck_count, random_ducks, ducks, distance,
                   on_one_half, distances, hits, trials, trial_log, result,
                   error>>

ExpNext == ExpectedResult

ExpSpec == ExpInit /\ [][ExpNext]_vars

-----------------------------------------------------------------------------
(* The notebook's experiment: the global  iterations  is assigned, and      *)
(* test(duck_count) is called, again and again.                             *)

Init ==
    /\ pc = "idle"
    /\ iterations \in IterationCounts
    /\ duck_count = 0
    /\ random_ducks = <<>>
    /\ ducks = <<>>
    /\ distance = 0
    /\ on_one_half = FALSE
    /\ distances = <<>>
    /\ hits = 0
    /\ trials = 0
    /\ trial_log = <<>>
    /\ result = <<>>
    /\ error = NoError
    /\ expectation = Zero

Resting == pc \in {"idle", "done", "error"}

\* iterations = 50000, executed again with another value
AssignIterations ==
    /\ Resting
    /\ \E k \in IterationCounts : iterations' = k
    /\ pc' = "idle"
    /\ UNCHANGED <<duck_count, random_ducks, ducks, distance, on_one_half,
                   distances, hits, trials, trial_log, result, error,
                   expectation>>

\* test(duck_count) is entered: distances = [], hits = 0, the loop starts
CallTest ==
    /\ Resting
    /\ \E n \in DuckCounts : duck_count' = n
    /\ distances' = <<>>
    /\ hits' = initial_hits(hits)
    /\ trials' = 0
    /\ trial_log' = <<>>
    /\ result' = <<>>
    /\ error' = NoError
    /\ pc' = "loop"
    /\ UNCHANGED <<iterations, random_ducks, ducks, distance, on_one_half,
                   expectation>>

\* one more element of range(iterations): ducks = generate_ducks(duck_count)
GenerateDucks ==
    /\ pc = "loop"
    /\ trials < iterations
    /\ duck_count >= 1
    /\ \E drawn \in Draws(duck_count) : ducks' = generate_ducks(drawn)
    /\ pc' = "generated"
    /\ UNCHANGED <<iterations, duck_count, random_ducks, distance, on_one_half,
                   distances, hits, trials, trial_log, result, error,
                   expectation>>

\* generate_ducks on range(duck_count) empty: random_ducks[0] of an empty list
GenerateDucksIndexError ==
    /\ pc = "loop"
    /\ trials < iterations
    /\ duck_count < 1
    /\ error' = "IndexError"
    /\ pc' = "error"
    /\ UNCHANGED <<iterations, duck_count, random_ducks, ducks, distance,
                   on_one_half, distances, hits, trials, trial_log, result,
                   expectation>>

\* if on_one_half: hits += 1, and the loop goes on.  ducks, distance and
\* on_one_half are assigned again before they are next read: they are
\* forgotten here.
CountHit ==
    /\ pc = "tested"
    /\ hits' = count_hit(hits, on_one_half)
    /\ trials' = trials + 1
    /\ trial_log' = Append(trial_log, on_one_half)
    /\ ducks' = <<>>
    /\ distance' = 0
    /\ on_one_half' = FALSE
    /\ pc' = "loop"
    /\ UNCHANGED <<iterations, duck_count, random_ducks, distances, result,
                   error, expectation>>

\* range(iterations) is exhausted: return (distances, hits, hits / iterations)
ReturnResult ==
    /\ pc = "loop"
    /\ trials >= iterations
    /\ iterations # 0
    /\ result' = <<distances, hits, divide(hits, iterations)>>
    /\ pc' = "done"
    /\ UNCHANGED <<iterations, duck_count, random_ducks, ducks, distance,
                   on_one_half, distances, hits, trials, trial_log, error,
                   expectation>>

\* hits / iterations with iterations = 0
ReturnZeroDivisionError ==
    /\ pc = "loop"
    /\ trials >= iterations
    /\ iterations = 0
    /\ error' = "ZeroDivisionError"
    /\ pc' = "error"
    /\ UNCHANGED <<iterations, duck_count, random_ducks, ducks, distance,
                   on_one_half, distances, hits, trials, trial_log, result,
                   expectation>>

Next ==
    \/ AssignIterations
    \/ CallTest
    \/ GenerateDucks
    \/ GenerateDucksIndexError
    \/ CalculateDistance
    \/ TestDistance
    \/ CountHit
    \/ ReturnResult
    \/ ReturnZeroDivisionError

Spec == Init /\ [][Next]_vars

\* the running test() takes its next step (the code is sequential)
Step ==
    \/ GenerateDucks
    \/ GenerateDucksIndexError
    \/ CalculateDistance
    \/ TestDistance
    \/ CountHit
    \/ ReturnResult
    \/ ReturnZeroDivisionError

-----------------------------------------------------------------------------
(* Geometry of the drawn points, in exact arithmetic: a point is a          *)
(* numerator in 0 .. One-1 on the circle of circumference One.              *)

\* all points lie on one closed arc of length 0.5 (such an arc can be taken
\* to start at a point of the grid)
InClosedSemicircle(points) ==
    \E a \in RandomValues :
        \A i \in 1 .. Len(points) : (points[i] - a) % One <= Half

\* the points turned by the offset c
Turned(points, c) == [i \in 1 .. Len(points) |-> (points[i] + c) % One]

AnchorOrders(n) ==
    {p \in [1 .. n -> 1 .. n] : \A i, j \in 1 .. n : p[i] = p[j] => i = j}

Permuted(points, p) == [i \in 1 .. Len(points) |-> points[p[i]]]

\* the outcome of one trial on given drawn values
Outcome(drawn) == test_distance(calculate_distance(generate_ducks(drawn)))

CountTrue(log) == Cardinality({i \in 1 .. Len(log) : log[i]})

Generated == pc \in {"generated", "measured", "tested"}

-----------------------------------------------------------------------------
(* Claims *)

\* C1: the sequence returned by generate_ducks(n) has exactly n elements, is
\* sorted ascending, and every element lies in [0, 1).
C1_SampleSortedInUnitInterval ==
    Generated =>
        /\ Len(ducks) = duck_count
        /\ \A i \in 1 .. Len(ducks) : ducks[i] >= 0 /\ ducks[i] < One
        /\ \A i \in 1 .. Len(ducks) - 1 : ducks[i] <= ducks[i + 1]

\* C1 witness: a sample of three, one value wrapped down from 1 or above (and
\* rounded on the way), returned in another order than drawn.
C1_Witness ==
    /\ pc = "generated"
    /\ Len(ducks) = 3
    /\ \E i \in 1 .. 3 :
           /\ rotated_ducks(random_ducks)[i] >= One
           /\ rotated_ducks(random_ducks)[i]
                  # random_ducks[i] + rotation_delta(random_ducks)
    /\ ducks # wrapped_ducks(rotated_ducks(random_ducks))

\* C2: whenever a trial is a hit, all n drawn points lie within one common
\* closed semicircle.
C2_HitImpliesSemicircle ==
    (pc = "tested" /\ on_one_half) => InClosedSemicircle(random_ducks)

\* C3: whenever all n drawn points lie within one common closed semicircle,
\* the trial is a hit.
C3_SemicircleImpliesHit ==
    (pc = "tested" /\ InClosedSemicircle(random_ducks)) => on_one_half

\* C4: turning every drawn value by a constant offset c (mod 1) before
\* generate_ducks gives the same hit/miss outcome (the claim adds: and the
\* same sorted sample, which is more).
C4_RotationInvariance ==
    pc = "tested" =>
        \A c \in RandomValues : Outcome(Turned(random_ducks, c)) = on_one_half

\* C10: the hit/miss outcome is the same for every permutation of the drawn
\* sequence, whichever point is drawn first.
C10_AnchorIndependence ==
    pc = "tested" =>
        \A p \in AnchorOrders(Len(random_ducks)) :
            Outcome(Permuted(random_ducks, p)) = on_one_half

\* C8: the trial is a hit exactly when sample[last] - sample[first] <= 0.5:
\* a span of exactly 0.5 is a hit, every larger span a miss.
C8_InclusiveBoundary ==
    pc = "tested" => (on_one_half <=> ducks[Len(ducks)] - ducks[1] <= Half)

\* C8 witness: a trial whose span is exactly 0.5, counted as a hit.
C8_Witness ==
    /\ pc = "tested"
    /\ ducks[Len(ducks)] - ducks[1] = Half
    /\ on_one_half = TRUE

LargestExactDucks == 1 - MinSubnormalExponent

C5_InvalidArgumentsRejected ==
    (pc = "done") => (duck_count >= 1 /\ iterations >= 1)

\* C7: with n = 1 the span is 0, with n = 1 and n = 2 every trial is a hit,
\* and a run of k >= 1 trials returns hit_count = k and the hit rate 1.0.
C7_FewDucksAlwaysHit ==
    (pc # "idle" /\ duck_count \in {1, 2}) =>
        /\ (pc \in {"measured", "tested"} /\ duck_count = 1) => distance = 0
        /\ pc = "tested" => on_one_half = TRUE
        /\ (pc = "done" /\ iterations >= 1) =>
               result[2] = iterations /\ result[3] = <<1, 1>>

\* C7 witness: a finished run of three trials with two ducks.
C7_Witness ==
    /\ pc = "done"
    /\ duck_count = 2
    /\ iterations = 3
    /\ trial_log = <<TRUE, TRUE, TRUE>>

InRun == pc \in {"loop", "generated", "measured", "tested"}

\* the steps a run still has to take: four per remaining loop body, less the
\* ones taken of the current body
StepsLeft ==
    4 * (iterations - trials)
        - (CASE pc = "generated" -> 1 [] pc = "measured" -> 2
             [] pc = "tested" -> 3 [] OTHER -> 0)

\* the counter during and at the end of a run with k >= 1
C6_Counting ==
    /\ (InRun /\ iterations >= 1) =>
           /\ Len(trial_log) = trials
           /\ hits = CountTrue(trial_log)
           /\ 0 <= hits /\ hits <= trials /\ trials <= iterations
           /\ StepsLeft >= 0
           /\ ENABLED Step
    /\ (pc = "done" /\ iterations >= 1) =>
           /\ trials = iterations
           /\ Len(trial_log) = iterations
           /\ hits = CountTrue(trial_log)
           /\ Len(result) = 3
           /\ result[2] = CountTrue(trial_log)
           /\ result[3][2] # 0
           /\ result[3][1] * iterations = CountTrue(trial_log) * result[3][2]

\* C6: a run with k >= 1 terminates after exactly k trials and returns the
\* number of those trials that were hits, and that number over k: the counter
\* starts at 0 in every run, goes up by 1 on a hit and stays on a miss,
\* 0 <= hits <= trials done <= k throughout, and every step of the run is
\* possible and leaves fewer steps to take (or ends the run), down to the
\* return after trial k.
C6_RunCountsHits ==
    /\ []C6_Counting
    /\ [][pc = "tested" =>
            /\ hits' = hits + (IF on_one_half THEN 1 ELSE 0)
            /\ trials' = trials + 1]_vars
    /\ [][(Resting /\ pc' = "loop") => (hits' = 0 /\ trials' = 0)]_vars
    /\ [][(InRun /\ iterations >= 1) =>
            \/ pc' = "error"
            \/ pc' = "done" /\ trials = iterations
            \/ InRun' /\ StepsLeft' < StepsLeft]_vars

\* C6 witness: a finished run of three trials, two hits and a miss.
C6_Witness ==
    /\ pc = "done"
    /\ iterations = 3
    /\ trial_log = <<TRUE, FALSE, TRUE>>
    /\ result = <<<<>>, 2, <<2, 3>>>>

====
